---------------------------- MODULE Spec2Model ----------------------------
(***************************************************************************)
(* A model of the MentraOS channel plugin (src/src/channel.ts): the        *)
(* per-connection voice gate of FaceClawAppServer.onSession (stop command, *)
(* speaking suppression, echo check, wake word / listen window, command    *)
(* extraction), the utterance flow that follows an accepted utterance      *)
(* (processInboundMessage, reply speak, apology), the photo handler, the   *)
(* activeSessions registry, mentraosOutbound.sendText and                  *)
(* mentraosGateway.startAccount with its abort listener.                   *)
(*                                                                         *)
(* Text is a sequence of one-character strings, so that the regular        *)
(* expressions and string functions of the source are computed on          *)
(* characters as JavaScript computes them.  Time is in milliseconds.       *)
(***************************************************************************)
EXTENDS Integers, Sequences, FiniteSets, TLC

(***************************************************************************)
(* Characters and the JavaScript string functions the source uses.         *)
(***************************************************************************)
Whitespace == {" ", "\n", "\t"}

LowerChars ==
  <<"a","b","c","d","e","f","g","h","i","j","k","l","m",
    "n","o","p","q","r","s","t","u","v","w","x","y","z">>

UpperChars ==
  <<"A","B","C","D","E","F","G","H","I","J","K","L","M",
    "N","O","P","Q","R","S","T","U","V","W","X","Y","Z">>

DigitChars == {"0","1","2","3","4","5","6","7","8","9"}

Range(s) == {s[i] : i \in 1..Len(s)}

Max(a, b) == IF a >= b THEN a ELSE b

\* One character of String.prototype.toLowerCase.
toLowerChar(c) ==
  IF \E i \in 1..Len(UpperChars) : UpperChars[i] = c
  THEN LowerChars[CHOOSE i \in 1..Len(UpperChars) : UpperChars[i] = c]
  ELSE c

\* String.prototype.toLowerCase.
toLowerCase(s) == [i \in 1..Len(s) |-> toLowerChar(s[i])]

\* The regular expression class \w, which decides \b.
IsWordChar(c) ==
  c \in Range(LowerChars) \cup Range(UpperChars) \cup DigitChars \cup {"_"}

RECURSIVE trimStart(_)
trimStart(s) ==
  IF s # <<>> /\ Head(s) \in Whitespace THEN trimStart(Tail(s)) ELSE s

RECURSIVE trimEnd(_)
trimEnd(s) ==
  IF s # <<>> /\ s[Len(s)] \in Whitespace
  THEN trimEnd(SubSeq(s, 1, Len(s) - 1))
  ELSE s

\* String.prototype.trim.
trim(s) == trimEnd(trimStart(s))

\* String.prototype.includes: sub occurs in s as a run of characters.
includes(s, sub) ==
  \E i \in 0..(Len(s) - Len(sub)) : SubSeq(s, i + 1, i + Len(sub)) = sub

\* s.split(/\s+/): the pieces between the runs of whitespace, an empty
\* piece before a leading run and after a trailing one included; the empty
\* string splits into one empty piece.
RECURSIVE splitFrom(_, _, _)
splitFrom(s, i, cur) ==
  IF i > Len(s) THEN <<cur>>
  ELSE IF s[i] \in Whitespace
       THEN IF i > 1 /\ s[i - 1] \in Whitespace
            THEN splitFrom(s, i + 1, cur)
            ELSE <<cur>> \o splitFrom(s, i + 1, <<>>)
       ELSE splitFrom(s, i + 1, Append(cur, s[i]))

split(s) == splitFrom(s, 1, <<>>)

(***************************************************************************)
(* estimateTtsDurationMs: ~130ms per word + 1s buffer, at least 2s.        *)
(***************************************************************************)
\* Variant: no lower limit.
estimateTtsDurationMs_NoFloor(text) == Len(split(text)) * 130 + 1000

estimateTtsDurationMs(text) == Max(2000, Len(split(text)) * 130 + 1000)

(***************************************************************************)
(* isEcho.  The closure variable recentTtsText is the parameter tts.       *)
(***************************************************************************)
\* The characters norm keeps: [a-z0-9\s], after lowercasing.
KeepNormChar(c) == c \in Range(LowerChars) \cup DigitChars \cup Whitespace

norm(s) == trim(SelectSeq(toLowerCase(s), KeepNormChar))

\* overlap / textWords.length > 0.6, as the ratio 6/10.
EchoOverlapNum == 6
EchoOverlapDen == 10

\* Variant: the overlap threshold compared the wrong way round.
isEcho_FlippedThreshold(tts, text) ==
  IF tts = <<>> THEN FALSE
  ELSE
    LET ttsNorm == norm(tts)
        textNorm == norm(text)
    IN  IF includes(ttsNorm, textNorm) \/ includes(textNorm, ttsNorm)
        THEN TRUE
        ELSE
          LET ttsWords == Range(split(ttsNorm))
              textWords == split(textNorm)
              overlap ==
                Cardinality({i \in 1..Len(textWords) : textWords[i] \in ttsWords})
          IN  IF Len(textWords) = 0 THEN FALSE
              ELSE overlap * EchoOverlapDen < EchoOverlapNum * Len(textWords)

isEcho(tts, text) ==
  IF tts = <<>> THEN FALSE
  ELSE
    LET ttsNorm == norm(tts)
        textNorm == norm(text)
    IN  IF includes(ttsNorm, textNorm) \/ includes(textNorm, ttsNorm)
        THEN TRUE
        ELSE
          LET ttsWords == Range(split(ttsNorm))
              textWords == split(textNorm)
              overlap ==
                Cardinality({i \in 1..Len(textWords) : textWords[i] \in ttsWords})
          IN  IF Len(textWords) = 0 THEN FALSE
              ELSE overlap * EchoOverlapDen > EchoOverlapNum * Len(textWords)

(***************************************************************************)
(* The stop command: /^stop\.?$/i on the trimmed text.                     *)
(***************************************************************************)
isStopCommand(raw) ==
  toLowerCase(raw) \in {<<"s","t","o","p">>, <<"s","t","o","p",".">>}

(***************************************************************************)
(* wakePattern:                                                            *)
(*   /(?:^|[\s,.])\s*(?:hey|hay|a|eh)\s+                                   *)
(*     (?:mentra|menta|mentor|mencia|mantra|menorah)\b/i                   *)
(* No wake token is a prefix of another and no name token is a prefix of   *)
(* another, and both begin with a letter, so a match from a given start    *)
(* is unique and the greedy \s* and \s+ take the whole run.                *)
(***************************************************************************)
WakeTokens ==
  { <<"h","e","y">>, <<"h","a","y">>, <<"a">>, <<"e","h">> }

NameTokens ==
  { <<"m","e","n","t","r","a">>, <<"m","e","n","t","a">>,
    <<"m","e","n","t","o","r">>, <<"m","e","n","c","i","a">>,
    <<"m","a","n","t","r","a">>, <<"m","e","n","o","r","a","h">> }

\* [\s,.], the character the pattern may consume before the wake token.
WakeSepChars == Whitespace \cup {",", "."}

RECURSIVE skipWs(_, _)
skipWs(s, i) ==
  IF i <= Len(s) /\ s[i] \in Whitespace THEN skipWs(s, i + 1) ELSE i

hasTokenAt(s, i, tok) ==
  i + Len(tok) - 1 <= Len(s) /\ SubSeq(s, i, i + Len(tok) - 1) = tok

\* \s*(wake)\s+(name)\b read from index i of the lowercased text: the index
\* of the last character matched, or 0.
wakeBodyEnd(s, i) ==
  LET j == skipWs(s, i)
      wakes == {w \in WakeTokens : hasTokenAt(s, j, w)}
  IN  IF wakes = {} THEN 0
      ELSE
        LET w == CHOOSE x \in wakes : TRUE
            k == j + Len(w)
            m == skipWs(s, k)
            names ==
              {n \in NameTokens :
                 /\ hasTokenAt(s, m, n)
                 /\ (m + Len(n) > Len(s) \/ ~IsWordChar(s[m + Len(n)]))}
        IN  IF m = k \/ names = {} THEN 0
            ELSE m + Len(CHOOSE x \in names : TRUE) - 1

\* The match that starts at index p: ^ (only at the first index) is tried
\* before [\s,.].
wakeEndFrom(s, p) ==
  IF p = 1 /\ wakeBodyEnd(s, 1) # 0 THEN wakeBodyEnd(s, 1)
  ELSE IF s[p] \in WakeSepChars THEN wakeBodyEnd(s, p + 1)
  ELSE 0

\* The leftmost match of wakePattern in raw: <<first, last>> indices, or
\* <<0, 0>> when there is none.
wakeMatch(raw) ==
  LET s == toLowerCase(raw)
      starts == {p \in 1..Len(s) : wakeEndFrom(s, p) # 0}
  IN  IF starts = {} THEN <<0, 0>>
      ELSE LET p == CHOOSE x \in starts : \A y \in starts : x <= y
           IN  <<p, wakeEndFrom(s, p)>>

\* wakePattern.test(raw)
hasWakeWord(raw) == wakeMatch(raw)[1] # 0

\* Variant: everything up to the end of the match removed.
removeWake_DropsLeading(raw) ==
  LET m == wakeMatch(raw)
  IN  IF m[1] = 0 THEN raw
      ELSE SubSeq(raw, m[2] + 1, Len(raw))

\* raw.replace(wakePattern, ""): the first match removed, the text before
\* it kept.
removeWake(raw) ==
  LET m == wakeMatch(raw)
  IN  IF m[1] = 0 THEN raw
      ELSE SubSeq(raw, 1, m[1] - 1) \o SubSeq(raw, m[2] + 1, Len(raw))

\* .replace(/^[,.\s]+/, "")
RECURSIVE stripLeadingPunct(_)
stripLeadingPunct(s) ==
  IF s # <<>> /\ Head(s) \in WakeSepChars THEN stripLeadingPunct(Tail(s)) ELSE s

DefaultGreeting == <<"H","e","y">>

\* The text handed to processInboundMessage.
extractCommand(raw) ==
  IF hasWakeWord(raw)
  THEN LET stripped == trim(stripLeadingPunct(removeWake(raw)))
       IN  IF stripped = <<>> THEN DefaultGreeting ELSE stripped
  ELSE raw

(***************************************************************************)
(* processInboundMessage: the deliver callback, run on each payload in     *)
(* order, builds collectedReply; <<>> stands for undefined.                *)
(***************************************************************************)
\* Variant: the payload text is appended as delivered, untrimmed.
RECURSIVE collectFrom_NoTrim(_, _)
collectFrom_NoTrim(chunks, collectedReply) ==
  IF chunks = <<>> THEN collectedReply
  ELSE
    collectFrom_NoTrim(Tail(chunks),
      IF trim(Head(chunks)) # <<>>
      THEN collectedReply
             \o (IF collectedReply # <<>> THEN <<"\n">> ELSE <<>>)
             \o Head(chunks)
      ELSE collectedReply)

RECURSIVE collectFrom(_, _)
collectFrom(chunks, collectedReply) ==
  IF chunks = <<>> THEN collectedReply
  ELSE
    LET replyText == trim(Head(chunks))
    IN  collectFrom(Tail(chunks),
          IF replyText # <<>>
          THEN collectedReply
                 \o (IF collectedReply # <<>> THEN <<"\n">> ELSE <<>>)
                 \o replyText
          ELSE collectedReply)

collectReply(chunks) == collectFrom(chunks, <<>>)

(***************************************************************************)
(* Bounds of the model and the inputs its events are drawn from.           *)
(***************************************************************************)
MaxConns == 2
MaxEvents == 3
MaxTicks == 1
MaxStarts == 2

\* The runs explored: one connection with the full budget of events and
\* clock steps, or every connection with one event and one clock step less
\* for each further connection.
Scopes ==
  { [conns |-> 1, events |-> MaxEvents, ticks |-> MaxTicks],
    [conns |-> MaxConns, events |-> MaxEvents - MaxConns + 1,
     ticks |-> MaxTicks - MaxConns + 1] }

Users == {"u1", "u2"}
ConnIds == 1..MaxConns
CallIds == 1..MaxStarts

\* The clock reading the model starts from and the steps it advances by.
StartTimes == {1000}
Deltas == {2000, 29000, 31000}

U_stop == <<"s","t","o","p">>
U_StopDot == <<" ","S","t","o","p","."," ">>
U_wakeTime == <<"h","e","y"," ","m","e","n","t","r","a"," ","w","h","a","t"," ","t","i","m","e"," ","i","s"," ","i","t">>
U_wakeOnly == <<"H","e","y"," ","M","e","n","t","r","a",".">>
U_fillerWake == <<"u","m"," ","h","e","y"," ","m","e","n","t","o","r",","," ","h","i">>
U_for == <<"f","o","r">>
U_four == <<"f","o","u","r","?">>
U_blank == <<" "," ">>

\* TranscriptionData.text of the events delivered to a session.
Utterances ==
  { U_stop, U_StopDot, U_wakeTime, U_wakeOnly, U_fillerWake, U_for, U_four,
    U_blank }

\* The events: every text as a final transcription, one as an interim one.
Transcriptions ==
  [text : Utterances, isFinal : {TRUE}]
    \cup [text : {U_wakeTime, U_stop}, isFinal : {FALSE}]

R_Four == <<"F","o","u","r">>
R_Long == <<"i","t"," ","i","s"," ","a"," ","b"," ","c"," ","d"," ","e"," ","f"," ","g"," ","h">>

\* The payload texts one dispatch hands to the deliver callback, in order.
ChunkRuns == { <<>>, <<U_blank>>, <<R_Four>>, <<R_Long>> }

(***************************************************************************)
(* State.                                                                  *)
(*   now                the clock, Date.now()                              *)
(*   conns              per connection: its status and its userId          *)
(*   activeSessions     the registry, a set of <<userId, handle>> entries; *)
(*                      the handle of a connection is its id               *)
(*   listenWindowUntil, speakingUntil, recentTtsText                       *)
(*                      the closure variables of each onSession call       *)
(*   flows              per connection, how many runs of the transcription *)
(*                      handler are suspended at each await: in            *)
(*                      processInboundMessage ("pipeline"), in the reply   *)
(*                      speak ("speak"), in the apology speak ("apology"), *)
(*                      and how many runs of the photo handler are         *)
(*                      suspended in saveMediaBuffer or                    *)
(*                      processInboundMessage ("photo") and in the reply   *)
(*                      speak ("photoSpeak").                              *)
(*                      Runs suspended at the same await differ in nothing *)
(*                      the rest of the run reads.                         *)
(*   quietSince         per connection, the time of the last successful    *)
(*                      reply speak while no stop command and no other     *)
(*                      reply has written the listen state since, else 0   *)
(*                      (history only)                                     *)
(*   last               what the last step did: the event, the branch the  *)
(*                      handler took, the text it dispatched, the audio    *)
(*                      calls it made, the listen state it started from    *)
(*                      (history only)                                     *)
(*   nEvents, nTicks    how many events and clock steps have happened      *)
(*   scope              the budget of connections, events and clock steps  *)
(*                      of the run (and of startAccount calls, where more  *)
(*                      than one is made)                                  *)
(*   probe              an input of a text function and, once applied, its *)
(*                      result                                             *)
(*   accountRuntimeStatus                                                  *)
(*                      the status record of the module                    *)
(*   appServerInstance  NoInstance (null), or the FaceClawAppServer the    *)
(*                      module variable refers to, named by the            *)
(*                      startAccount call that constructed it              *)
(*   gateway            per startAccount call: where it is (pc), the       *)
(*                      health route it registered, whether its abort      *)
(*                      listeners are attached, whether its signal has     *)
(*                      fired, the statuses handed to its ctx.setStatus,   *)
(*                      in order, the FaceClawAppServer it constructed     *)
(*                      (listener: "none", "created" until start()         *)
(*                      settled, then "started" or "failed", "stopped"     *)
(*                      or "stopFailed" once stop() settled) and the       *)
(*                      instance whose stop() its abort listener awaits    *)
(*                      (stopTarget)                                       *)
(*   unhandledRejections                                                   *)
(*                      how many promises rejected with no handler         *)
(*                      attached                                           *)
(***************************************************************************)
VARIABLES now, conns, activeSessions, listenWindowUntil, speakingUntil,
          recentTtsText, flows, quietSince, last, nEvents, nTicks, scope,
          probe, accountRuntimeStatus, appServerInstance, gateway,
          unhandledRejections

vars == <<now, conns, activeSessions, listenWindowUntil, speakingUntil,
          recentTtsText, flows, quietSince, last, nEvents, nTicks, scope,
          probe, accountRuntimeStatus, appServerInstance, gateway,
          unhandledRejections>>

hostVars ==
  <<accountRuntimeStatus, appServerInstance, gateway, unhandledRejections>>

sessionVarsButLast ==
  <<now, conns, activeSessions, listenWindowUntil, speakingUntil,
    recentTtsText, flows, quietSince, nEvents, nTicks, scope>>

sessionVars ==
  <<now, conns, activeSessions, listenWindowUntil, speakingUntil,
    recentTtsText, flows, quietSince, last, nEvents, nTicks, scope>>

\* Conversational listen window: 30s after the last interaction.
LISTEN_WINDOW_MS == 30000

NoUser == "none"

\* Variant: an identity already registered keeps its handle.
registrySet_IfAbsent(reg, userId, handle) ==
  IF \E e \in reg : e[1] = userId THEN reg ELSE reg \cup {<<userId, handle>>}

\* Map.prototype.set / delete / has / get on the registry.
registrySet(reg, userId, handle) ==
  {e \in reg : e[1] # userId} \cup {<<userId, handle>>}

registryDelete(reg, userId) == {e \in reg : e[1] # userId}

registryHas(reg, userId) == \E e \in reg : e[1] = userId

registryGet(reg, userId) == (CHOOSE e \in reg : e[1] = userId)[2]

\* The closure variables of connection c, as one record.
listenState(c) ==
  [ listenWindowUntil |-> listenWindowUntil[c],
    speakingUntil |-> speakingUntil[c],
    recentTtsText |-> recentTtsText[c] ]

\* session.audio calls, as the handler makes them.
speakCall(text, trackId, stopOtherAudio) ==
  [ api |-> "speak", text |-> text, trackId |-> trackId,
    stopOtherAudio |-> stopOtherAudio ]

stopAudioCall == [ api |-> "stopAudio" ]

AckText == <<"H","m","m">>
ApologyText ==
  << "S","o","r","r","y",","," ","I"," ","e","n","c","o","u",
     "n","t","e","r","e","d"," ","a","n"," ","e","r","r","o",
     "r"," ","p","r","o","c","e","s","s","i","n","g"," ","y",
     "o","u","r"," ","r","e","q","u","e","s","t","." >>

ackCall == speakCall(AckText, 1, FALSE)
replyCall(reply) == speakCall(reply, 2, TRUE)
apologyCall == speakCall(ApologyText, 2, TRUE)

PhotoApologyText ==
  << "S","o","r","r","y",","," ","I"," ","c","o","u","l","d",
     "n","'","t"," ","a","n","a","l","y","z","e"," ","t","h",
     "a","t"," ","p","h","o","t","o","." >>

photoApologyCall == speakCall(PhotoApologyText, 2, TRUE)

NoFlows ==
  [pipeline |-> 0, speak |-> 0, apology |-> 0, photo |-> 0, photoSpeak |-> 0]

startFlow(f, at) == [f EXCEPT ![at] = @ + 1]
endFlow(f, at) == [f EXCEPT ![at] = @ - 1]
moveFlow(f, from, to) == startFlow(endFlow(f, from), to)

NoProbe == [fn |-> "none"]

\* null in a time field of the status.
NoTime == 0

DEFAULT_ACCOUNT_ID == "default"
NoError == "null"
\* The message of the warning (its dash is an en dash in the source).
NoKeyError == "MentraOS API key not configured - skipping startup"
StartError == "errMsg"

\* let accountRuntimeStatus = {...}
InitialStatus ==
  [ accountId |-> DEFAULT_ACCOUNT_ID, running |-> FALSE,
    lastStartAt |-> NoTime, lastStopAt |-> NoTime, lastError |-> NoError ]

\* The status startAccount publishes once appServerInstance.start() resolved.
RunningStatus ==
  [ accountId |-> DEFAULT_ACCOUNT_ID, running |-> TRUE,
    lastStartAt |-> now, lastStopAt |-> NoTime, lastError |-> NoError ]

\* let appServerInstance = null
NoInstance == 0

\* A startAccount call not yet made.
IdleCall ==
  [ pc |-> "idle", healthRoute |-> "none", abortListener |-> FALSE,
    aborted |-> FALSE, published |-> <<>>, listener |-> "none",
    stopTarget |-> NoInstance ]

\* A startAccount call that has started its server and waits for the abort
\* signal.
RunningCall ==
  [ pc |-> "running", healthRoute |-> "registered", abortListener |-> TRUE,
    aborted |-> FALSE, published |-> <<RunningStatus>>,
    listener |-> "started", stopTarget |-> NoInstance ]

\* The module as loaded, startAccount not yet called.
HostIdle ==
  /\ accountRuntimeStatus = InitialStatus
  /\ appServerInstance = NoInstance
  /\ gateway = [k \in CallIds |-> IdleCall]
  /\ unhandledRejections = 0

\* The first startAccount call has started the server: it waits for the
\* abort signal.
HostRunning ==
  /\ accountRuntimeStatus = RunningStatus
  /\ appServerInstance = 1
  /\ gateway = [k \in CallIds |-> IF k = 1 THEN RunningCall ELSE IdleCall]
  /\ unhandledRejections = 0

\* A FaceClawAppServer is started, or its stop() failed: its onSession can
\* be called.
Listening ==
  \E k \in CallIds : gateway[k].listener \in {"started", "stopFailed"}

SessionInit ==
  /\ now \in StartTimes
  /\ conns = [c \in ConnIds |-> [status |-> "unused", userId |-> NoUser]]
  /\ activeSessions = {}
  /\ listenWindowUntil = [c \in ConnIds |-> 0]
  /\ speakingUntil = [c \in ConnIds |-> 0]
  /\ recentTtsText = [c \in ConnIds |-> <<>>]
  /\ flows = [c \in ConnIds |-> NoFlows]
  /\ quietSince = [c \in ConnIds |-> 0]
  /\ last = [op |-> "init"]
  /\ nEvents = 0
  /\ nTicks = 0

\* The server runs and no device has connected yet.
Init == SessionInit /\ scope \in Scopes /\ probe = NoProbe /\ HostRunning

\* The clock advances.
Tick(d) ==
  /\ nTicks < scope.ticks
  /\ now' = now + d
  /\ nTicks' = nTicks + 1
  /\ last' = [op |-> "tick"]
  /\ UNCHANGED <<conns, activeSessions, listenWindowUntil, speakingUntil,
                 recentTtsText, flows, quietSince, nEvents, scope, probe,
                 hostVars>>

\* Variant: the timers and the echo text are kept per user identity, so a
\* new connection resets those of every connection of the same user.
Connect_SharedState(c, userId) ==
  /\ Listening
  /\ c <= scope.conns
  /\ conns[c].status = "unused"
  /\ \A d \in ConnIds : d < c => conns[d].status # "unused"
  /\ conns' = [conns EXCEPT ![c] = [status |-> "live", userId |-> userId]]
  /\ activeSessions' = registrySet(activeSessions, userId, c)
  /\ listenWindowUntil' =
       [d \in ConnIds |-> IF d = c \/ conns[d].userId = userId
                          THEN 0 ELSE listenWindowUntil[d]]
  /\ speakingUntil' =
       [d \in ConnIds |-> IF d = c \/ conns[d].userId = userId
                          THEN 0 ELSE speakingUntil[d]]
  /\ recentTtsText' =
       [d \in ConnIds |-> IF d = c \/ conns[d].userId = userId
                          THEN <<>> ELSE recentTtsText[d]]
  /\ last' = [op |-> "connect", conn |-> c, userId |-> userId]
  /\ UNCHANGED <<now, flows, quietSince, nEvents, nTicks, scope, probe,
                 hostVars>>

\* onSession(session, sessionId, userId): the connection is registered and
\* its closure starts with both timers 0 and no echo text.
Connect(c, userId) ==
  /\ Listening
  /\ c <= scope.conns
  /\ conns[c].status = "unused"
  /\ \A d \in ConnIds : d < c => conns[d].status # "unused"
  /\ conns' = [conns EXCEPT ![c] = [status |-> "live", userId |-> userId]]
  /\ activeSessions' = registrySet(activeSessions, userId, c)
  /\ listenWindowUntil' = [listenWindowUntil EXCEPT ![c] = 0]
  /\ speakingUntil' = [speakingUntil EXCEPT ![c] = 0]
  /\ recentTtsText' = [recentTtsText EXCEPT ![c] = <<>>]
  /\ last' = [op |-> "connect", conn |-> c, userId |-> userId]
  /\ UNCHANGED <<now, flows, quietSince, nEvents, nTicks, scope, probe,
                 hostVars>>

\* onStop(sessionId, userId, reason)
Disconnect(c) ==
  /\ conns[c].status = "live"
  /\ conns' = [conns EXCEPT ![c].status = "closed"]
  /\ activeSessions' = registryDelete(activeSessions, conns[c].userId)
  /\ last' = [op |-> "disconnect", conn |-> c, userId |-> conns[c].userId]
  /\ UNCHANGED <<now, listenWindowUntil, speakingUntil, recentTtsText, flows,
                 quietSince, nEvents, nTicks, scope, probe,
                 hostVars>>

(***************************************************************************)
(* The transcription handler (onTranscriptionForLanguage callback).        *)
(***************************************************************************)
\* What the handler computes from the text of an event and from the echo
\* text, computed once for every text and echo text of the model:
\*   raw       data.text.trim()
\*   isStop    /^stop\.?$/i.test(raw)
\*   echoes    the values of recentTtsText for which isEcho(raw) holds
\*   hasWake   wakePattern.test(raw)
\*   command   the text with the wake word stripped
SpokenTexts == {collectReply(chunks) : chunks \in ChunkRuns}

textFacts ==
  { [ text |-> t,
      raw |-> trim(t),
      isStop |-> isStopCommand(trim(t)),
      echoes |-> {tts \in SpokenTexts : isEcho(tts, trim(t))},
      hasWake |-> hasWakeWord(trim(t)),
      command |-> extractCommand(trim(t)) ] : t \in Utterances }

factsOf(text) == CHOOSE f \in textFacts : f.text = text

\* Variant: the speaking suppression is tested before the stop command.
gateVerdict_SuppressFirst(c, data) ==
  IF ~data.isFinal \/ factsOf(data.text).raw = <<>> THEN "ignored"
  ELSE IF now < speakingUntil[c] THEN "suppressed"
  ELSE IF factsOf(data.text).isStop THEN "stop"
  ELSE IF recentTtsText[c] \in factsOf(data.text).echoes THEN "echo"
  ELSE IF ~factsOf(data.text).hasWake /\ ~(now < listenWindowUntil[c])
       THEN "nowake"
  ELSE "accepted"

\* Variant: the speaking suppression lasts through speakingUntil itself.
gateVerdict_SuppressThrough(c, data) ==
  IF ~data.isFinal \/ factsOf(data.text).raw = <<>> THEN "ignored"
  ELSE IF factsOf(data.text).isStop THEN "stop"
  ELSE IF now <= speakingUntil[c] THEN "suppressed"
  ELSE IF recentTtsText[c] \in factsOf(data.text).echoes THEN "echo"
  ELSE IF ~factsOf(data.text).hasWake /\ ~(now < listenWindowUntil[c])
       THEN "nowake"
  ELSE "accepted"

\* Variant: a wake word passes the speaking suppression.
gateVerdict_WakeBargesIn(c, data) ==
  IF ~data.isFinal \/ factsOf(data.text).raw = <<>> THEN "ignored"
  ELSE IF factsOf(data.text).isStop THEN "stop"
  ELSE IF now < speakingUntil[c] /\ ~factsOf(data.text).hasWake
       THEN "suppressed"
  ELSE IF recentTtsText[c] \in factsOf(data.text).echoes THEN "echo"
  ELSE IF ~factsOf(data.text).hasWake /\ ~(now < listenWindowUntil[c])
       THEN "nowake"
  ELSE "accepted"

\* The branch the handler takes for data on connection c, named after what
\* it logs.  Every Date.now() of one synchronous run reads the same clock.
gateVerdict(c, data) ==
  IF ~data.isFinal \/ factsOf(data.text).raw = <<>> THEN "ignored"
  ELSE IF factsOf(data.text).isStop THEN "stop"
  ELSE IF now < speakingUntil[c] THEN "suppressed"
  ELSE IF recentTtsText[c] \in factsOf(data.text).echoes THEN "echo"
  ELSE IF ~factsOf(data.text).hasWake /\ ~(now < listenWindowUntil[c])
       THEN "nowake"
  ELSE "accepted"

\* Variant: the echo branch keeps the echo text.
gateListenState_EchoKept(c, verdict) ==
  CASE verdict = "stop" ->
         [ listenWindowUntil |-> 0, speakingUntil |-> 0, recentTtsText |-> <<>> ]
    [] OTHER -> listenState(c)

\* The closure variables as the branch leaves them.
gateListenState(c, verdict) ==
  CASE verdict = "stop" ->
         [ listenWindowUntil |-> 0, speakingUntil |-> 0, recentTtsText |-> <<>> ]
    [] verdict = "echo" ->
         [ listenState(c) EXCEPT !.recentTtsText = <<>> ]
    [] OTHER -> listenState(c)

\* Variant: the stop command is acknowledged like an accepted utterance.
gateCalls_StopAcked(verdict, routeThrows) ==
  CASE verdict = "stop" -> <<stopAudioCall, ackCall>>
    [] verdict = "accepted" ->
         IF routeThrows THEN <<ackCall, apologyCall>> ELSE <<ackCall>>
    [] OTHER -> <<>>

\* The session.audio calls the branch makes before its first await.
gateCalls(verdict, routeThrows) ==
  CASE verdict = "stop" -> <<stopAudioCall>>
    [] verdict = "accepted" ->
         IF routeThrows THEN <<ackCall, apologyCall>> ELSE <<ackCall>>
    [] OTHER -> <<>>

\* The text the branch passes to processInboundMessage.
NoCommand == <<>>

gateCommand(verdict, text) ==
  IF verdict = "accepted" THEN factsOf(text).command ELSE NoCommand

\* One transcription event on connection c.  routeThrows: resolveAgentRoute
\* (or another call before the first await of processInboundMessage) throws,
\* which the handler's catch turns into the apology speak.  ackRejects: the
\* promise of the acknowledgment speak, which the handler neither awaits
\* nor gives a handler, rejects.
Transcription(c, data, routeThrows, ackRejects) ==
  /\ conns[c].status = "live"
  /\ nEvents < scope.events
  /\ \E verdict \in {gateVerdict(c, data)} :
     \E after \in {gateListenState(c, verdict)} :
       /\ listenWindowUntil' =
            [listenWindowUntil EXCEPT ![c] = after.listenWindowUntil]
       /\ speakingUntil' = [speakingUntil EXCEPT ![c] = after.speakingUntil]
       /\ recentTtsText' = [recentTtsText EXCEPT ![c] = after.recentTtsText]
       /\ flows' =
            IF verdict = "accepted"
            THEN [flows EXCEPT ![c] =
                    startFlow(@, IF routeThrows THEN "apology" ELSE "pipeline")]
            ELSE flows
       /\ quietSince' = IF verdict = "stop"
                        THEN [quietSince EXCEPT ![c] = 0]
                        ELSE quietSince
       /\ last' = [ op |-> "transcription", conn |-> c, text |-> data.text,
                    isFinal |-> data.isFinal, verdict |-> verdict,
                    command |-> gateCommand(verdict, data.text),
                    dispatched |-> (verdict = "accepted"),
                    routeThrew |-> (verdict = "accepted" /\ routeThrows),
                    calls |-> gateCalls(verdict, routeThrows),
                    before |-> listenState(c) ]
       /\ unhandledRejections' =
            IF verdict = "accepted" /\ ackRejects
            THEN unhandledRejections + 1
            ELSE unhandledRejections
  /\ nEvents' = nEvents + 1
  /\ UNCHANGED <<now, conns, activeSessions, nTicks, scope, probe,
                 accountRuntimeStatus, appServerInstance, gateway>>

(***************************************************************************)
(* The rest of the utterance flow.                                         *)
(***************************************************************************)
\* Variant: the estimate stored without the clock reading.
replyListenState_NoClock(c, reply) ==
  [ listenState(c) EXCEPT !.recentTtsText = reply,
                          !.speakingUntil = estimateTtsDurationMs(reply) ]

\* The closure variables as the reply branch sets them before it speaks.
replyListenState(c, reply) ==
  [ listenState(c) EXCEPT !.recentTtsText = reply,
                          !.speakingUntil = now + estimateTtsDurationMs(reply) ]

\* Variant: the listen window is not extended.
spokenListenState_NoExtend(c) == listenState(c)

\* The closure variables after the reply speak resolved.
spokenListenState(c) ==
  [ listenState(c) EXCEPT !.listenWindowUntil = now + LISTEN_WINDOW_MS ]

\* processInboundMessage returns, the dispatcher having delivered chunks:
\* with a reply the flow sets the echo state and speaks it.
PipelineReturn(c, chunks) ==
  /\ flows[c].pipeline > 0
  /\ \E reply \in {collectReply(chunks)} :
     \E after \in {replyListenState(c, reply)} :
       IF reply # <<>>
       THEN /\ recentTtsText' = [recentTtsText EXCEPT ![c] = after.recentTtsText]
            /\ speakingUntil' = [speakingUntil EXCEPT ![c] = after.speakingUntil]
            /\ flows' = [flows EXCEPT ![c] = moveFlow(@, "pipeline", "speak")]
            /\ quietSince' = [quietSince EXCEPT ![c] = 0]
            /\ last' = [ op |-> "reply", conn |-> c, reply |-> reply,
                         calls |-> <<replyCall(reply)>>,
                         before |-> listenState(c) ]
       ELSE /\ flows' = [flows EXCEPT ![c] = endFlow(@, "pipeline")]
            /\ last' = [ op |-> "noReply", conn |-> c, calls |-> <<>> ]
            /\ UNCHANGED <<recentTtsText, speakingUntil, quietSince>>
  /\ UNCHANGED <<now, conns, activeSessions, listenWindowUntil, nEvents, nTicks, scope, probe,
                 hostVars>>

\* The steps of processInboundMessage from its first await on.
RecordingSteps ==
  {"recordInboundSession", "recordSessionMetaFromInbound", "activity.record"}

PipelineSteps == RecordingSteps \cup {"dispatchReply"}

\* Variant: the handler has no catch, the rejection is left unhandled and
\* nothing is spoken.
PipelineThrow_Uncaught(c, step) ==
  /\ flows[c].pipeline > 0
  /\ flows' = [flows EXCEPT ![c] = endFlow(@, "pipeline")]
  /\ last' = [ op |-> "pipelineThrew", conn |-> c, step |-> step,
               calls |-> <<>> ]
  /\ unhandledRejections' = unhandledRejections + 1
  /\ UNCHANGED <<now, conns, activeSessions, listenWindowUntil, speakingUntil,
                 recentTtsText, quietSince, nEvents, nTicks, scope, probe,
                 accountRuntimeStatus, appServerInstance, gateway>>

\* processInboundMessage throws at step, one of its steps from the first
\* await on: no step is inside a try, so the promise rejects and the
\* handler's catch speaks the apology.
PipelineThrow(c, step) ==
  /\ flows[c].pipeline > 0
  /\ flows' = [flows EXCEPT ![c] = moveFlow(@, "pipeline", "apology")]
  /\ last' = [ op |-> "pipelineThrew", conn |-> c, step |-> step,
               calls |-> <<apologyCall>> ]
  /\ UNCHANGED <<now, conns, activeSessions, listenWindowUntil, speakingUntil,
                 recentTtsText, quietSince, nEvents, nTicks, scope, probe,
                 hostVars>>

\* The reply speak resolves: the listen window is extended.
SpeakResolve(c) ==
  /\ flows[c].speak > 0
  /\ listenWindowUntil' =
       [listenWindowUntil EXCEPT ![c] = spokenListenState(c).listenWindowUntil]
  /\ quietSince' =
       [quietSince EXCEPT ![c] = IF flows[c].speak > 1 THEN 0 ELSE now]
  /\ flows' = [flows EXCEPT ![c] = endFlow(@, "speak")]
  /\ last' = [ op |-> "replySpoken", conn |-> c, calls |-> <<>>,
               before |-> listenState(c) ]
  /\ UNCHANGED <<now, conns, activeSessions, speakingUntil, recentTtsText,
                 nEvents, nTicks, scope, probe,
                 hostVars>>

\* Variant: the catch extends the listen window as the reply branch does.
SpeakReject_Extends(c) ==
  /\ flows[c].speak > 0
  /\ listenWindowUntil' =
       [listenWindowUntil EXCEPT ![c] = now + LISTEN_WINDOW_MS]
  /\ flows' = [flows EXCEPT ![c] = moveFlow(@, "speak", "apology")]
  /\ last' = [ op |-> "replyFailed", conn |-> c, calls |-> <<apologyCall>> ]
  /\ UNCHANGED <<now, conns, activeSessions, speakingUntil, recentTtsText,
                 quietSince, nEvents, nTicks, scope, probe, hostVars>>

\* The reply speak rejects: the catch speaks the apology.
SpeakReject(c) ==
  /\ flows[c].speak > 0
  /\ flows' = [flows EXCEPT ![c] = moveFlow(@, "speak", "apology")]
  /\ last' = [ op |-> "replyFailed", conn |-> c, calls |-> <<apologyCall>> ]
  /\ UNCHANGED <<now, conns, activeSessions, listenWindowUntil, speakingUntil,
                 recentTtsText, quietSince, nEvents, nTicks, scope, probe,
                 hostVars>>

\* The apology speak settles; a rejection is caught and logged.
ApologySettle(c) ==
  /\ flows[c].apology > 0
  /\ flows' = [flows EXCEPT ![c] = endFlow(@, "apology")]
  /\ last' = [ op |-> "apologySettled", conn |-> c, calls |-> <<>> ]
  /\ UNCHANGED <<now, conns, activeSessions, listenWindowUntil, speakingUntil,
                 recentTtsText, quietSince, nEvents, nTicks, scope, probe,
                 hostVars>>

Next ==
  \/ \E d \in Deltas : Tick(d)
  \/ \E c \in ConnIds, u \in Users : Connect(c, u)
  \/ \E c \in ConnIds : Disconnect(c)
  \/ \E c \in ConnIds, data \in Transcriptions, routeThrows \in BOOLEAN :
       Transcription(c, data, routeThrows, FALSE)
  \/ \E c \in ConnIds, chunks \in ChunkRuns : PipelineReturn(c, chunks)
  \/ \E c \in ConnIds, step \in PipelineSteps : PipelineThrow(c, step)
  \/ \E c \in ConnIds : SpeakResolve(c)
  \/ \E c \in ConnIds : SpeakReject(c)
  \/ \E c \in ConnIds : ApologySettle(c)

Spec == Init /\ [][Next]_vars

(***************************************************************************)
(* The photo handler (onPhotoTaken callback).                              *)
(***************************************************************************)
\* A photo event on connection c: the run waits for saveMediaBuffer, then
\* for processInboundMessage.
Photo(c) ==
  /\ conns[c].status = "live"
  /\ nEvents < scope.events
  /\ flows' = [flows EXCEPT ![c] = startFlow(@, "photo")]
  /\ last' = [ op |-> "photo", conn |-> c, calls |-> <<>> ]
  /\ nEvents' = nEvents + 1
  /\ UNCHANGED <<now, conns, activeSessions, listenWindowUntil, speakingUntil,
                 recentTtsText, quietSince, nTicks, scope, probe, hostVars>>

\* Variant: the photo handler sets the echo state before it speaks, as the
\* transcription handler does.
PhotoReturn_SetsEchoState(c, chunks) ==
  /\ flows[c].photo > 0
  /\ \E reply \in {collectReply(chunks)} :
       IF reply # <<>>
       THEN /\ flows' = [flows EXCEPT ![c] = moveFlow(@, "photo", "photoSpeak")]
            /\ recentTtsText' = [recentTtsText EXCEPT ![c] = reply]
            /\ speakingUntil' =
                 [speakingUntil EXCEPT
                    ![c] = now + estimateTtsDurationMs(reply)]
            /\ last' = [ op |-> "photoReply", conn |-> c, reply |-> reply,
                         calls |-> <<replyCall(reply)>>,
                         before |-> listenState(c) ]
       ELSE /\ flows' = [flows EXCEPT ![c] = endFlow(@, "photo")]
            /\ last' = [ op |-> "photoNoReply", conn |-> c, calls |-> <<>> ]
            /\ UNCHANGED <<recentTtsText, speakingUntil>>
  /\ UNCHANGED <<now, conns, activeSessions, listenWindowUntil, quietSince,
                 nEvents, nTicks, scope, probe, hostVars>>

\* processInboundMessage returns to the photo handler: a reply is spoken.
PhotoReturn(c, chunks) ==
  /\ flows[c].photo > 0
  /\ \E reply \in {collectReply(chunks)} :
       IF reply # <<>>
       THEN /\ flows' = [flows EXCEPT ![c] = moveFlow(@, "photo", "photoSpeak")]
            /\ last' = [ op |-> "photoReply", conn |-> c, reply |-> reply,
                         calls |-> <<replyCall(reply)>>,
                         before |-> listenState(c) ]
       ELSE /\ flows' = [flows EXCEPT ![c] = endFlow(@, "photo")]
            /\ last' = [ op |-> "photoNoReply", conn |-> c, calls |-> <<>> ]
  /\ UNCHANGED <<now, conns, activeSessions, listenWindowUntil, speakingUntil,
                 recentTtsText, quietSince, nEvents, nTicks, scope, probe,
                 hostVars>>

\* saveMediaBuffer or processInboundMessage throws: the catch speaks the
\* photo apology.
PhotoThrow(c) ==
  /\ flows[c].photo > 0
  /\ flows' = [flows EXCEPT ![c] = moveFlow(@, "photo", "apology")]
  /\ last' = [ op |-> "photoThrew", conn |-> c, calls |-> <<photoApologyCall>> ]
  /\ UNCHANGED <<now, conns, activeSessions, listenWindowUntil, speakingUntil,
                 recentTtsText, quietSince, nEvents, nTicks, scope, probe,
                 hostVars>>

\* The reply speak of the photo handler resolves: the run ends.
PhotoSpeakResolve(c) ==
  /\ flows[c].photoSpeak > 0
  /\ flows' = [flows EXCEPT ![c] = endFlow(@, "photoSpeak")]
  /\ last' = [ op |-> "photoSpoken", conn |-> c, calls |-> <<>> ]
  /\ UNCHANGED <<now, conns, activeSessions, listenWindowUntil, speakingUntil,
                 recentTtsText, quietSince, nEvents, nTicks, scope, probe,
                 hostVars>>

\* The reply speak of the photo handler rejects: the catch speaks the photo
\* apology.
PhotoSpeakReject(c) ==
  /\ flows[c].photoSpeak > 0
  /\ flows' = [flows EXCEPT ![c] = moveFlow(@, "photoSpeak", "apology")]
  /\ last' = [ op |-> "photoSpeakFailed", conn |-> c,
               calls |-> <<photoApologyCall>> ]
  /\ UNCHANGED <<now, conns, activeSessions, listenWindowUntil, speakingUntil,
                 recentTtsText, quietSince, nEvents, nTicks, scope, probe,
                 hostVars>>

(***************************************************************************)
(* mentraosOutbound.sendText                                               *)
(***************************************************************************)
\* The speak call of sendText: made on the handle the registry holds for
\* the addressee, if any.
sendTextCalls(to, text) ==
  IF registryHas(activeSessions, to) THEN <<replyCall(text)>> ELSE <<>>

\* sendText({to, text}).  speakRejects: the speak rejects, which the try
\* around it catches and logs.  The call returns its messageId either way.
SendText(to, text, speakRejects) ==
  /\ nEvents < scope.events
  /\ last' = [ op |-> "sendText", to |-> to, text |-> text,
               found |-> registryHas(activeSessions, to),
               conn |-> IF registryHas(activeSessions, to)
                        THEN registryGet(activeSessions, to) ELSE 0,
               calls |-> sendTextCalls(to, text),
               speakRejected |-> (registryHas(activeSessions, to) /\ speakRejects),
               threw |-> FALSE ]
  /\ nEvents' = nEvents + 1
  /\ UNCHANGED <<now, conns, activeSessions, listenWindowUntil, speakingUntil,
                 recentTtsText, flows, quietSince, nTicks, scope, probe,
                 hostVars>>

(***************************************************************************)
(* mentraosGateway.startAccount                                            *)
(***************************************************************************)
\* ctx.setStatus(status)
setStatus(g, status) == [g EXCEPT !.published = Append(@, status)]

\* The startAccount calls are made in the order of their numbers, as many as
\* the run allows.
CanCall(k) ==
  /\ k <= scope.starts
  /\ gateway[k].pc = "idle"
  /\ \A j \in CallIds : j < k => gateway[j].pc # "idle"

\* Variant: the health route is registered before the API key is looked at.
StartAccount_RouteFirst(k, hasKey, ctorThrows) ==
  /\ CanCall(k)
  /\ IF ~hasKey
     THEN /\ accountRuntimeStatus' =
               [accountRuntimeStatus EXCEPT !.running = FALSE,
                                            !.lastError = NoKeyError]
          /\ gateway' = [gateway EXCEPT ![k].pc = "skipped",
                                        ![k].healthRoute = "registered"]
          /\ last' = [ op |-> "startSkipped", call |-> k, threw |-> FALSE ]
          /\ UNCHANGED appServerInstance
     ELSE IF ctorThrows
     THEN /\ accountRuntimeStatus' =
               [accountRuntimeStatus EXCEPT !.running = FALSE,
                                            !.lastError = StartError]
          /\ gateway' =
               [gateway EXCEPT ![k] =
                  setStatus([@ EXCEPT !.pc = "failed",
                                      !.healthRoute = "registered"],
                            accountRuntimeStatus')]
          /\ last' = [ op |-> "startFailed", call |-> k, threw |-> FALSE ]
          /\ UNCHANGED appServerInstance
     ELSE /\ appServerInstance' = k
          /\ gateway' = [gateway EXCEPT ![k].pc = "starting",
                                        ![k].healthRoute = "registered",
                                        ![k].listener = "created"]
          /\ last' = [ op |-> "starting", call |-> k, threw |-> FALSE ]
          /\ UNCHANGED accountRuntimeStatus
  /\ UNCHANGED <<sessionVarsButLast, probe, unhandledRejections>>

\* Call k of startAccount(ctx), up to its first await.  Without an API key
\* it marks the status and returns.  With one it registers the health route,
\* constructs the server and assigns it to appServerInstance, whatever that
\* variable held; ctorThrows: the constructor throws, which the catch
\* handles as it handles a rejected start().
StartAccount(k, hasKey, ctorThrows) ==
  /\ CanCall(k)
  /\ IF ~hasKey
     THEN /\ accountRuntimeStatus' =
               [accountRuntimeStatus EXCEPT !.running = FALSE,
                                            !.lastError = NoKeyError]
          /\ gateway' = [gateway EXCEPT ![k].pc = "skipped"]
          /\ last' = [ op |-> "startSkipped", call |-> k, threw |-> FALSE ]
          /\ UNCHANGED appServerInstance
     ELSE IF ctorThrows
     THEN /\ accountRuntimeStatus' =
               [accountRuntimeStatus EXCEPT !.running = FALSE,
                                            !.lastError = StartError]
          /\ gateway' =
               [gateway EXCEPT ![k] =
                  setStatus([@ EXCEPT !.pc = "failed",
                                      !.healthRoute = "registered"],
                            accountRuntimeStatus')]
          /\ last' = [ op |-> "startFailed", call |-> k, threw |-> FALSE ]
          /\ UNCHANGED appServerInstance
     ELSE /\ appServerInstance' = k
          /\ gateway' = [gateway EXCEPT ![k].pc = "starting",
                                        ![k].healthRoute = "registered",
                                        ![k].listener = "created"]
          /\ last' = [ op |-> "starting", call |-> k, threw |-> FALSE ]
          /\ UNCHANGED accountRuntimeStatus
  /\ UNCHANGED <<sessionVarsButLast, probe, unhandledRejections>>

\* The start() of the server of call k resolves: the status is published and
\* the abort listeners are attached.
StartResolve(k) ==
  /\ gateway[k].pc = "starting"
  /\ accountRuntimeStatus' = RunningStatus
  /\ gateway' =
       [gateway EXCEPT ![k] =
          setStatus([@ EXCEPT !.pc = "running", !.abortListener = TRUE,
                              !.listener = "started"],
                    RunningStatus)]
  /\ last' = [ op |-> "started", call |-> k, threw |-> FALSE ]
  /\ UNCHANGED <<sessionVarsButLast, probe, appServerInstance,
                 unhandledRejections>>

\* The start() of the server of call k rejects: the catch publishes the
\* status and startAccount returns.
StartReject(k) ==
  /\ gateway[k].pc = "starting"
  /\ accountRuntimeStatus' =
       [accountRuntimeStatus EXCEPT !.running = FALSE, !.lastError = StartError]
  /\ gateway' =
       [gateway EXCEPT ![k] =
          setStatus([@ EXCEPT !.pc = "failed", !.listener = "failed"],
                    accountRuntimeStatus')]
  /\ last' = [ op |-> "startFailed", call |-> k, threw |-> FALSE ]
  /\ UNCHANGED <<sessionVarsButLast, probe, appServerInstance,
                 unhandledRejections>>

\* What the health route registered by call k answers to a GET: the handler
\* reports the server as running while appServerInstance is set.
healthProbe(k) ==
  IF gateway[k].healthRoute # "registered" THEN "unregistered"
  ELSE IF appServerInstance # NoInstance THEN "running" ELSE "stopped"

\* The status the abort listener publishes.
StoppedStatus ==
  [accountRuntimeStatus EXCEPT !.running = FALSE, !.lastStopAt = now]

\* The abort signal of call k fires.  With the abort listeners attached the
\* first one unregisters the health route and, if appServerInstance is set,
\* calls its stop() and waits; with appServerInstance null it goes straight
\* on to clear the registry and publish the status.  A listener attached
\* after the signal fired never runs.
Abort(k) ==
  /\ k <= scope.starts
  /\ ~gateway[k].aborted
  /\ IF gateway[k].abortListener
     THEN IF appServerInstance # NoInstance
          THEN /\ gateway' = [gateway EXCEPT ![k].aborted = TRUE,
                                             ![k].pc = "stopping",
                                             ![k].healthRoute = "unregistered",
                                             ![k].stopTarget = appServerInstance]
               /\ last' = [ op |-> "stopping", call |-> k,
                            at |-> gateway[k].pc, threw |-> FALSE ]
               /\ UNCHANGED <<activeSessions, accountRuntimeStatus>>
          ELSE /\ activeSessions' = {}
               /\ accountRuntimeStatus' = StoppedStatus
               /\ gateway' =
                    [gateway EXCEPT ![k] =
                       setStatus([@ EXCEPT !.aborted = TRUE, !.pc = "stopped",
                                           !.healthRoute = "unregistered"],
                                 StoppedStatus)]
               /\ last' = [ op |-> "stopped", call |-> k,
                            at |-> gateway[k].pc, stopCalled |-> FALSE,
                            stopRejected |-> FALSE, threw |-> FALSE ]
     ELSE /\ gateway' = [gateway EXCEPT ![k].aborted = TRUE]
          /\ last' = [ op |-> "abortUnheard", call |-> k,
                       at |-> gateway[k].pc, threw |-> FALSE ]
          /\ UNCHANGED <<activeSessions, accountRuntimeStatus>>
  /\ UNCHANGED <<now, conns, listenWindowUntil, speakingUntil, recentTtsText,
                 flows, quietSince, nEvents, nTicks, scope, probe,
                 appServerInstance, unhandledRejections>>

\* What a server is after its stop() settled: "stopped" if it resolved; if
\* it rejected ("stopFailed") the server may or may not still listen.
afterStop(stopRejects) == IF stopRejects THEN "stopFailed" ELSE "stopped"

\* Variant: the registry is not cleared.
StopSettle_KeepsRegistry(k, stopRejects) ==
  /\ gateway[k].pc = "stopping"
  /\ appServerInstance' = NoInstance
  /\ accountRuntimeStatus' = StoppedStatus
  /\ gateway' =
       [ [gateway EXCEPT ![gateway[k].stopTarget].listener =
                           afterStop(stopRejects)]
           EXCEPT ![k] = setStatus([@ EXCEPT !.pc = "stopped"], StoppedStatus) ]
  /\ last' = [ op |-> "stopped", call |-> k, at |-> "stopping",
               stopCalled |-> TRUE, stopRejected |-> stopRejects,
               threw |-> FALSE ]
  /\ UNCHANGED <<now, conns, activeSessions, listenWindowUntil, speakingUntil,
                 recentTtsText, flows, quietSince, nEvents, nTicks, scope,
                 probe, unhandledRejections>>

\* Variant: a rejection of stop() ends the abort listener.
StopSettle_RejectionEscapes(k, stopRejects) ==
  /\ gateway[k].pc = "stopping"
  /\ IF stopRejects
     THEN /\ gateway' = [gateway EXCEPT ![k].pc = "stopped"]
          /\ unhandledRejections' = unhandledRejections + 1
          /\ UNCHANGED <<appServerInstance, activeSessions,
                         accountRuntimeStatus>>
     ELSE /\ appServerInstance' = NoInstance
          /\ activeSessions' = {}
          /\ accountRuntimeStatus' = StoppedStatus
          /\ gateway' =
               [ [gateway EXCEPT ![gateway[k].stopTarget].listener = "stopped"]
                   EXCEPT ![k] =
                     setStatus([@ EXCEPT !.pc = "stopped"], StoppedStatus) ]
          /\ UNCHANGED unhandledRejections
  /\ last' = [ op |-> "stopped", call |-> k, at |-> "stopping",
               stopCalled |-> TRUE, stopRejected |-> stopRejects,
               threw |-> FALSE ]
  /\ UNCHANGED <<now, conns, listenWindowUntil, speakingUntil, recentTtsText,
                 flows, quietSince, nEvents, nTicks, scope, probe>>

\* The stop() the abort listener of call k awaits settles (a rejection is
\* caught and logged): appServerInstance is set to null, the registry is
\* cleared and the status published.
StopSettle(k, stopRejects) ==
  /\ gateway[k].pc = "stopping"
  /\ appServerInstance' = NoInstance
  /\ activeSessions' = {}
  /\ accountRuntimeStatus' = StoppedStatus
  /\ gateway' =
       [ [gateway EXCEPT ![gateway[k].stopTarget].listener =
                           afterStop(stopRejects)]
           EXCEPT ![k] = setStatus([@ EXCEPT !.pc = "stopped"], StoppedStatus) ]
  /\ last' = [ op |-> "stopped", call |-> k, at |-> "stopping",
               stopCalled |-> TRUE, stopRejected |-> stopRejects,
               threw |-> FALSE ]
  /\ UNCHANGED <<now, conns, listenWindowUntil, speakingUntil, recentTtsText,
                 flows, quietSince, nEvents, nTicks, scope, probe,
                 unhandledRejections>>

(***************************************************************************)
(* The whole module: from startAccount to the abort signal, with voice and *)
(* photo events, outbound sends and every outcome of the acknowledgment    *)
(* speak.  Spec above is the part of it in which the server runs, the      *)
(* acknowledgment speak resolves and only transcription events arrive.     *)
(***************************************************************************)
\* The runs explored, each with one startAccount call: one connection with
\* one event less for each further connection the bounds allow, or every
\* connection with one event and one clock step less again.
HostScopes ==
  { [conns |-> 1, events |-> MaxEvents - MaxConns + 1, ticks |-> MaxTicks,
     starts |-> 1],
    [conns |-> MaxConns, events |-> MaxEvents - MaxConns,
     ticks |-> MaxTicks - MaxConns + 1, starts |-> 1] }

HostDeltas == {2000}

HostTranscriptions ==
  [text : {U_wakeTime, U_stop, U_for}, isFinal : {TRUE}]

OutboundTexts == {R_Four}

HostChunkRuns == { <<>>, <<R_Four>> }

HostInit ==
  /\ SessionInit
  /\ scope \in HostScopes
  /\ probe = NoProbe
  /\ HostIdle

HostNext ==
  \/ \E k \in CallIds, hasKey \in BOOLEAN, ctorThrows \in BOOLEAN :
       StartAccount(k, hasKey, ctorThrows)
  \/ \E k \in CallIds : StartResolve(k)
  \/ \E k \in CallIds : StartReject(k)
  \/ \E k \in CallIds : Abort(k)
  \/ \E k \in CallIds, stopRejects \in BOOLEAN : StopSettle(k, stopRejects)
  \/ \E d \in HostDeltas : Tick(d)
  \/ \E c \in ConnIds, u \in Users : Connect(c, u)
  \/ \E c \in ConnIds : Disconnect(c)
  \/ \E c \in ConnIds, data \in HostTranscriptions,
        routeThrows \in BOOLEAN, ackRejects \in BOOLEAN :
       Transcription(c, data, routeThrows, ackRejects)
  \/ \E c \in ConnIds, chunks \in HostChunkRuns : PipelineReturn(c, chunks)
  \/ \E c \in ConnIds, step \in PipelineSteps : PipelineThrow(c, step)
  \/ \E c \in ConnIds : SpeakResolve(c)
  \/ \E c \in ConnIds : SpeakReject(c)
  \/ \E c \in ConnIds : ApologySettle(c)
  \/ \E c \in ConnIds : Photo(c)
  \/ \E c \in ConnIds, chunks \in HostChunkRuns : PhotoReturn(c, chunks)
  \/ \E c \in ConnIds : PhotoThrow(c)
  \/ \E c \in ConnIds : PhotoSpeakResolve(c)
  \/ \E c \in ConnIds : PhotoSpeakReject(c)
  \/ \E to \in Users, text \in OutboundTexts, speakRejects \in BOOLEAN :
       SendText(to, text, speakRejects)

HostSpec == HostInit /\ [][HostNext]_vars

(***************************************************************************)
(* The lifecycle on its own: several startAccount calls, each with its own *)
(* abort signal, in every interleaving, with one device connecting and     *)
(* disconnecting.                                                          *)
(***************************************************************************)
LifecycleScope ==
  [conns |-> 1, events |-> 0, ticks |-> MaxTicks, starts |-> MaxStarts]

LifecycleInit ==
  /\ SessionInit
  /\ scope = LifecycleScope
  /\ probe = NoProbe
  /\ HostIdle

LifecycleNext ==
  \/ \E k \in CallIds, hasKey \in BOOLEAN, ctorThrows \in BOOLEAN :
       StartAccount(k, hasKey, ctorThrows)
  \/ \E k \in CallIds : StartResolve(k)
  \/ \E k \in CallIds : StartReject(k)
  \/ \E k \in CallIds : Abort(k)
  \/ \E k \in CallIds, stopRejects \in BOOLEAN : StopSettle(k, stopRejects)
  \/ \E d \in HostDeltas : Tick(d)
  \/ \E c \in ConnIds, u \in Users : Connect(c, u)
  \/ \E c \in ConnIds : Disconnect(c)

LifecycleSpec == LifecycleInit /\ [][LifecycleNext]_vars

\* Every start() and every stop() that was called settles.
LifecycleFairness ==
  \A k \in CallIds :
    /\ WF_vars(StartResolve(k) \/ StartReject(k))
    /\ WF_vars(\E stopRejects \in BOOLEAN : StopSettle(k, stopRejects))

LifecycleLiveSpec == LifecycleSpec /\ LifecycleFairness

(***************************************************************************)
(* The text functions on their own: isEcho applied to every pair of short  *)
(* texts over a small alphabet and to the pairs of ProbeExamples, the      *)
(* deliver callback and the reply branch applied to every short run of     *)
(* payload texts, and estimateTtsDurationMs applied to every reply these   *)
(* runs give; and one run of the transcription handler on an accepted      *)
(* utterance, statement by statement.                                      *)
(***************************************************************************)
MaxProbeLen == 3

ProbeAlphabet == {"a", "B", " ", "-"}

P_weatherTts == <<"t","h","e"," ","w","e","a","t","h","e","r"," ","t","o","d","a","y"," ","i","s"," ","s","u","n","n","y">>
P_weatherEcho == <<"w","e","a","t","h","e","r"," ","t","o","d","a","y"," ","i","s"," ","s","u","n","n","y">>
P_whatTime == <<"w","h","a","t"," ","t","i","m","e"," ","i","s"," ","i","t">>
P_dashTts == <<"S","u","n","n","y"," ","-"," ","e","n","j","o","y","!">>
P_dashHeard == <<"i","t"," ","i","s"," ","s","u","n","n","y"," ","e","n","j","o","y"," ","h","e"," ","s","a","i","d">>

ProbeExamples ==
  { P_weatherTts, P_weatherEcho, P_whatTime, P_dashTts, P_dashHeard,
    R_Four, U_for, U_four }

ProbeTexts ==
  UNION {[1..n -> ProbeAlphabet] : n \in 0..MaxProbeLen} \cup ProbeExamples

P_helloThere == <<"h","e","l","l","o"," ","t","h","e","r","e">>
P_twentyWords == <<"I","t"," ","i","s"," ","f","o","u","r"," ","i","n"," ","t","h","e"," ","a","f","t","e","r","n","o","o","n"," ","a","n","d"," ","t","h","e"," ","s","u","n"," ","i","s"," ","o","u","t"," ","s","o"," ","t","a","k","e"," ","a"," ","w","a","l","k"," ","b","e","f","o","r","e"," ","t","h","e"," ","r","a","i","n"," ","c","o","m","e","s"," ","b","a","c","k">>

\* Payload texts: undefined or empty, blank, with and without whitespace
\* around the text.
ProbeChunks ==
  { <<>>, <<" ">>, <<"a">>, <<" ","a"," ">>, <<"B","\n">>, R_Four }

ProbeChunkRuns == UNION {[1..n -> ProbeChunks] : n \in 0..MaxProbeLen}

\* The replies processInboundMessage can return for these runs, and the two
\* examples.
ProbeReplies ==
  ({collectReply(chunks) : chunks \in ProbeChunkRuns} \ {<<>>})
    \cup {P_helloThere, P_twentyWords}

\* Variant: the acknowledgment is spoken once the dispatch has returned.
FlowSteps_AckAfterDispatch ==
  << "resolveAgentRoute", "recordInboundSession",
     "recordSessionMetaFromInbound", "activity.record", "dispatchStart",
     "dispatchDone", "ackSpeak", "replySpeak", "extendListenWindow" >>

\* The statements of one run of the transcription handler on an accepted
\* utterance, in the order of the source: the acknowledgment speak, then
\* processInboundMessage (route, recording steps, the dispatch and its
\* return), then the reply branch.
FlowSteps ==
  << "ackSpeak", "resolveAgentRoute", "recordInboundSession",
     "recordSessionMetaFromInbound", "activity.record", "dispatchStart",
     "dispatchDone", "replySpeak", "extendListenWindow" >>

\* The statement that throws or whose promise rejects inside the try, if
\* any; at "dispatchDone" it is the dispatch that rejects.
FlowFailures ==
  { "none", "resolveAgentRoute", "recordInboundSession",
    "recordSessionMetaFromInbound", "activity.record", "dispatchDone",
    "replySpeak" }

\* Where a run is once it reached the catch, and once it ended.
FlowCatch == Len(FlowSteps) + 1
FlowEnd == Len(FlowSteps) + 2

\* The session.audio call a statement makes.
flowCalls(step, reply) ==
  CASE step = "ackSpeak" -> <<ackCall>>
    [] step = "replySpeak" -> <<replyCall(reply)>>
    [] step = "apologySpeak" -> <<apologyCall>>
    [] OTHER -> <<>>

TextInit ==
  /\ SessionInit
  /\ scope = [conns |-> 1, events |-> MaxEvents, ticks |-> MaxTicks]
  /\ probe \in [fn : {"isEcho"}, tts : ProbeTexts, text : ProbeTexts,
                 result : {"pending"}]
          \cup [fn : {"collectReply"}, chunks : ProbeChunkRuns,
                applied : {FALSE}, reply : {<<>>}, calls : {<<>>}]
          \cup [fn : {"estimate"}, text : ProbeReplies,
                applied : {FALSE}, ms : {0}]
          \cup [fn : {"flow"}, chunks : HostChunkRuns, failsAt : FlowFailures,
                pc : {1}, trace : {<<>>}]
  /\ HostRunning

\* isEcho(text) with recentTtsText = tts.
ProbeIsEcho ==
  /\ probe.fn = "isEcho"
  /\ probe.result = "pending"
  /\ probe' = [probe EXCEPT
                 !.result = IF isEcho(probe.tts, probe.text)
                            THEN "echo" ELSE "distinct"]
  /\ UNCHANGED <<sessionVars, hostVars>>

\* The session.audio calls of the "if (reply)" branch.
replyCalls(reply) == IF reply # <<>> THEN <<replyCall(reply)>> ELSE <<>>

\* processInboundMessage with the dispatcher delivering probe.chunks, and
\* the reply branch of the handler on what it returns.
ProbeCollectReply ==
  /\ probe.fn = "collectReply"
  /\ ~probe.applied
  /\ \E reply \in {collectReply(probe.chunks)} :
       probe' = [probe EXCEPT !.applied = TRUE, !.reply = reply,
                              !.calls = replyCalls(reply)]
  /\ UNCHANGED <<sessionVars, hostVars>>

\* estimateTtsDurationMs(reply)
ProbeEstimate ==
  /\ probe.fn = "estimate"
  /\ ~probe.applied
  /\ probe' = [probe EXCEPT !.applied = TRUE,
                            !.ms = estimateTtsDurationMs(probe.text)]
  /\ UNCHANGED <<sessionVars, hostVars>>

\* The next statement of the run: it is executed and logged; a failing one
\* sends the run to the catch, which speaks the apology; without a reply
\* the run ends when the dispatch has returned.
ProbeFlowStep ==
  /\ probe.fn = "flow"
  /\ probe.pc # FlowEnd
  /\ \E reply \in {collectReply(probe.chunks)} :
       IF probe.pc = FlowCatch
       THEN probe' =
              [probe EXCEPT
                 !.pc = FlowEnd,
                 !.trace = Append(@, [ step |-> "apologySpeak", ok |-> TRUE,
                                       calls |-> flowCalls("apologySpeak",
                                                           reply) ])]
       ELSE \E step \in {FlowSteps[probe.pc]} :
              probe' =
                [probe EXCEPT
                   !.pc = IF step = probe.failsAt THEN FlowCatch
                          ELSE IF step = "dispatchDone" /\ reply = <<>>
                          THEN FlowEnd
                          ELSE IF probe.pc = Len(FlowSteps) THEN FlowEnd
                          ELSE probe.pc + 1,
                   !.trace = Append(@, [ step |-> step,
                                         ok |-> (step # probe.failsAt),
                                         calls |-> flowCalls(step, reply) ])]
  /\ UNCHANGED <<sessionVars, hostVars>>

TextNext ==
  ProbeIsEcho \/ ProbeCollectReply \/ ProbeEstimate \/ ProbeFlowStep

TextSpec == TextInit /\ [][TextNext]_vars

(***************************************************************************)
(* Properties.  An event is described by the record the handler leaves in  *)
(* last: the closure variables it found (before), the branch it took, the  *)
(* audio calls it made and what it dispatched.                             *)
(***************************************************************************)
Handled == last.op = "transcription"

\* The texts that, trimmed, read "stop" or "stop." in any letter case.
StopWord == <<"s","t","o","p">>

StopTexts ==
  {t \in Utterances : toLowerCase(trim(t)) \in {StopWord, StopWord \o <<".">>}}

\* The texts that are empty once trimmed.
BlankTexts == {t \in Utterances : \A i \in 1..Len(t) : t[i] \in Whitespace}

\* The conditions of the gate on the state the handler found.
IsFinalSpeech == last.isFinal /\ last.text \notin BlankTexts
NotSpeaking == now >= last.before.speakingUntil
NotEcho == last.before.recentTtsText \notin factsOf(last.text).echoes
WakeOrWindow ==
  factsOf(last.text).hasWake \/ now < last.before.listenWindowUntil

C2_GateAccepts ==
  (Handled /\ IsFinalSpeech /\ last.text \notin StopTexts
     /\ NotSpeaking /\ NotEcho /\ WakeOrWindow)
    => /\ last.dispatched
       /\ last.command # NoCommand
       /\ Head(last.calls) = ackCall

\* A follow-up without the wake word accepted at the very instant the
\* speaking suppression ends, inside the listen window.
C2_FollowUpAccepted ==
  /\ Handled /\ IsFinalSpeech /\ last.text \notin StopTexts
  /\ ~factsOf(last.text).hasWake
  /\ last.before.speakingUntil = now
  /\ now < last.before.listenWindowUntil
  /\ last.dispatched

\* C3: a transcription event is acted on (acknowledgment spoken, command
\* dispatched) only if it is final and non-empty, now >= speakingUntil, it
\* is not an echo, and the wake word is present or now < listenWindowUntil;
\* so a wake-word utterance is rejected while now < speakingUntil and an
\* utterance without the wake word is rejected once now >= listenWindowUntil.
C3_ActedOnlyIfGateOpen ==
  (Handled /\ (last.dispatched \/ ackCall \in Range(last.calls)))
    => /\ IsFinalSpeech
       /\ NotSpeaking
       /\ NotEcho
       /\ WakeOrWindow

\* A wake-word utterance acted on after an earlier reply's suppression
\* interval and listen window have both run out.
C3_WakeAfterWindowClosed ==
  /\ Handled /\ last.dispatched
  /\ factsOf(last.text).hasWake
  /\ last.before.speakingUntil > 0
  /\ now >= last.before.listenWindowUntil
  /\ last.before.listenWindowUntil > 0

\* A final, non-empty utterance that is no stop command and carries no
\* wake word.
FollowUpSpeech ==
  /\ Handled /\ IsFinalSpeech
  /\ last.text \notin StopTexts
  /\ ~factsOf(last.text).hasWake

\* The reply speak of the connection resolved at clock reading T =
\* quietSince, and since then the connection has entered no reply branch
\* and handled no stop command.
QuietFor(ms) ==
  /\ Handled
  /\ quietSince[last.conn] # 0
  /\ now = quietSince[last.conn] + ms

\* C4 as stated: after a successful spoken reply at T, listenWindowUntil =
\* T + 30000, every final utterance without a wake word arriving at
\* T + 29000 is accepted, and one arriving at T + 31000 is rejected.
C4_FollowUpAlwaysAccepted ==
  /\ (last.op = "replySpoken" => listenWindowUntil[last.conn] = now + 30000)
  /\ (FollowUpSpeech /\ QuietFor(29000) => last.dispatched)
  /\ (FollowUpSpeech /\ QuietFor(31000) => ~last.dispatched)

\* C4, amended: after a successful spoken reply at T, listenWindowUntil =
\* T + 30000; a final utterance without a wake word arriving at T + 29000
\* is accepted exactly when it also passes the two earlier checks, that is
\* when T + 29000 >= speakingUntil and it is not an echo of recentTtsText;
\* one arriving at T + 31000 is rejected.
C4_FollowUpInsideWindow ==
  /\ (last.op = "replySpoken" => listenWindowUntil[last.conn] = now + 30000)
  /\ (FollowUpSpeech /\ QuietFor(29000)
        => /\ last.before.listenWindowUntil = now + 1000
           /\ last.dispatched <=> (NotSpeaking /\ NotEcho))
  /\ (FollowUpSpeech /\ QuietFor(31000) => ~last.dispatched)

\* A follow-up without the wake word heard 29 s after the reply was spoken
\* and accepted, the listen window closing 1 s later.
C4_FollowUpAt29s ==
  /\ FollowUpSpeech /\ QuietFor(29000)
  /\ last.before.listenWindowUntil = now + 1000
  /\ last.dispatched

\* The step handles a stop command on connection c.
StopStep(c) ==
  /\ last'.op = "transcription"
  /\ last'.conn = c
  /\ last'.verdict = "stop"

\* The step enters the reply branch on connection c.
ReplyStep(c) == last'.op = "reply" /\ last'.conn = c

\* C5 as stated: from one state to the next, overlapping utterance flows
\* included, neither listenWindowUntil nor speakingUntil decreases, except
\* in a step that handles a stop command.
C5_BothNeverDecrease ==
  [][\A c \in ConnIds :
       StopStep(c)
       \/ (/\ listenWindowUntil'[c] >= listenWindowUntil[c]
           /\ speakingUntil'[c] >= speakingUntil[c])]_vars

\* C5, amended: listenWindowUntil never decreases except in a step that
\* handles a stop command; speakingUntil never decreases except in such a
\* step or when, with overlapping utterance flows, a reply is about to be
\* spoken while the suppression interval of an earlier reply still runs
\* (now < speakingUntil): that step overwrites speakingUntil with now plus
\* the estimate of the new reply, which may be less.
C5_DecreaseOnlyByStopOrOverlap ==
  [][\A c \in ConnIds :
       StopStep(c)
       \/ (/\ listenWindowUntil'[c] >= listenWindowUntil[c]
           /\ \/ speakingUntil'[c] >= speakingUntil[c]
              \/ /\ ReplyStep(c)
                 /\ now < speakingUntil[c]
                 /\ speakingUntil'[c] =
                      now' + estimateTtsDurationMs(last'.reply))]_vars

\* A reply branch entered while an earlier reply's suppression interval
\* still runs, leaving speakingUntil lower than it found it.
C5_ShorterReplyOverwrites ==
  /\ last.op = "reply"
  /\ now < last.before.speakingUntil
  /\ speakingUntil[last.conn] < last.before.speakingUntil

\* C6: an utterance rejected by the echo check leaves recentTtsText empty
\* in that same step, and while recentTtsText is empty (until a reply is
\* spoken) no utterance, whatever its text, is rejected by the echo check.
C6_EchoConsumed ==
  /\ (Handled /\ last.verdict = "echo") => recentTtsText[last.conn] = <<>>
  /\ \A c \in ConnIds :
       recentTtsText[c] = <<>>
         => \A data \in Transcriptions : gateVerdict(c, data) # "echo"
  /\ (Handled /\ last.before.recentTtsText = <<>>) => last.verdict # "echo"

\* An utterance rejected as the echo of the reply held, which the step
\* clears.
C6_EchoRejected ==
  /\ Handled /\ last.verdict = "echo"
  /\ last.before.recentTtsText # <<>>
  /\ recentTtsText[last.conn] = <<>>

\* The final transcription "for" handled with recentTtsText = "Four" at the
\* clock reading at which the speak of that reply resolved.
ForRightAfterFour ==
  /\ Handled /\ last.isFinal
  /\ last.text = U_for
  /\ last.before.recentTtsText = R_Four
  /\ QuietFor(0)

\* C7 as stated: immediately after the reply "Four" has been spoken, a
\* final transcription "for" is rejected by the echo check and
\* recentTtsText is cleared.
C7_ForRejectedAsEcho ==
  ForRightAfterFour
    => last.verdict = "echo" /\ recentTtsText[last.conn] = <<>>

\* C7, amended: immediately after the reply "Four" has been spoken, a final
\* transcription "for" is not rejected by the echo check ("for" and "four"
\* neither contain one another nor share a word) and recentTtsText stays
\* "Four": while now < speakingUntil it is rejected by the speaking
\* suppression, and once now >= speakingUntil it is accepted as a follow-up
\* inside the listen window.
C7_ForNotAnEcho ==
  ForRightAfterFour
    => /\ last.verdict # "echo"
       /\ recentTtsText[last.conn] = R_Four
       /\ now < last.before.speakingUntil => last.verdict = "suppressed"
       /\ now >= last.before.speakingUntil => last.dispatched

\* "for" heard while "Four" is presumed to play: rejected by the speaking
\* suppression.
C7_ForSuppressed ==
  /\ ForRightAfterFour
  /\ now < last.before.speakingUntil
  /\ last.verdict = "suppressed"

\* The normalization as C8 words it: lower case, every character that is
\* not a letter, digit or whitespace removed, runs of whitespace collapsed
\* to one space, the ends trimmed.
RECURSIVE collapseWhitespace(_)
collapseWhitespace(s) ==
  IF s = <<>> THEN <<>>
  ELSE IF Head(s) \in Whitespace
       THEN IF Len(s) > 1 /\ s[2] \in Whitespace
            THEN collapseWhitespace(Tail(s))
            ELSE <<" ">> \o collapseWhitespace(Tail(s))
       ELSE <<Head(s)>> \o collapseWhitespace(Tail(s))

collapsedNorm(s) == collapseWhitespace(norm(s))

\* The echo decision as C8 words it, on texts so normalized.
statedEcho(tts, text) ==
  LET ttsNorm == collapsedNorm(tts)
      textNorm == collapsedNorm(text)
      ttsWords == Range(split(ttsNorm))
      textWords == split(textNorm)
      overlap ==
        Cardinality({i \in 1..Len(textWords) : textWords[i] \in ttsWords})
  IN  \/ includes(ttsNorm, textNorm)
      \/ includes(textNorm, ttsNorm)
      \/ overlap * 10 > 6 * Len(textWords)

\* C8: with recentTtsText non-empty, isEcho rejects a candidate exactly when,
\* after normalization (lower case, non-alphanumerics stripped, whitespace
\* collapsed), one normalized text contains the other or more than 0.6 of
\* the candidate's words are words of the spoken text; "weather today is
\* sunny" is an echo of "the weather today is sunny", "what time is it" is
\* not.
C8_EchoIffNormalizedMatch ==
  (probe.fn = "isEcho" /\ probe.result # "pending" /\ probe.tts # <<>>)
    => /\ probe.result = "echo" <=> statedEcho(probe.tts, probe.text)
       /\ (probe.tts = P_weatherTts /\ probe.text = P_weatherEcho)
            => probe.result = "echo"
       /\ (probe.tts = P_weatherTts /\ probe.text = P_whatTime)
            => probe.result = "distinct"

\* The command as C9 words it: the matched wake words and the commas,
\* periods and whitespace that follow them removed, "Hey" if nothing is
\* left.
statedCommand(raw) ==
  LET m == wakeMatch(raw)
      rest == SubSeq(raw, 1, m[1] - 1)
                \o stripLeadingPunct(SubSeq(raw, m[2] + 1, Len(raw)))
  IN  IF m[1] = 0 THEN raw
      ELSE IF rest = <<>> THEN DefaultGreeting ELSE rest

\* The command as the amended C9 words it: the first match cut out, then
\* the result from its first character that is no comma, period or
\* whitespace to its last character that is no whitespace, "Hey" if there is
\* none.
amendedCommand(raw) ==
  LET m == wakeMatch(raw)
      kept == SubSeq(raw, 1, m[1] - 1) \o SubSeq(raw, m[2] + 1, Len(raw))
      inner == {i \in 1..Len(kept) : kept[i] \notin WakeSepChars}
      solid == {i \in 1..Len(kept) : kept[i] \notin Whitespace}
      first == CHOOSE i \in inner : \A k \in inner : i <= k
      final == CHOOSE j \in solid : \A k \in solid : j >= k
  IN  IF m[1] = 0 THEN raw
      ELSE IF inner = {} THEN DefaultGreeting
      ELSE SubSeq(kept, first, final)

StatedCommands == {<<t, statedCommand(trim(t))>> : t \in Utterances}
AmendedCommands == {<<t, amendedCommand(trim(t))>> : t \in Utterances}

\* The texts whose wake-pattern match starts the trimmed text.
WakeFirstTexts == {t \in Utterances : wakeMatch(trim(t))[1] = 1}

\* C9 as stated: the command dispatched for an accepted text matching the
\* wake pattern is the text with the matched wake prefix and the
\* punctuation and space following it removed, or "Hey" when nothing is
\* left; for an accepted text without a match it is the trimmed text.
C9_WakePrefixRemoved ==
  (Handled /\ last.dispatched)
    => <<last.text, last.command>> \in StatedCommands

\* C9, amended: the command dispatched for an accepted text matching the
\* wake pattern is the text with the first match removed (what precedes
\* the match is kept), then the leading commas, periods and whitespace of
\* that result removed and the result trimmed, or "Hey" when nothing is
\* left; when the match starts the text this is the text after the wake
\* words and the punctuation and space following them; for an accepted
\* text without a match it is the trimmed text.
C9_WakeMatchRemoved ==
  (Handled /\ last.dispatched)
    => /\ <<last.text, last.command>> \in AmendedCommands
       /\ last.text \in WakeFirstTexts
            => <<last.text, last.command>> \in StatedCommands
       /\ ~factsOf(last.text).hasWake => last.command = factsOf(last.text).raw

\* An accepted text whose wake words follow a filler: the filler and the
\* comma after the wake words are both dispatched.
C9_FillerKept ==
  /\ Handled /\ last.dispatched
  /\ factsOf(last.text).hasWake
  /\ last.text \notin WakeFirstTexts
  /\ last.command = <<"u","m",","," ","h","i">>

\* The connection made last for identity u.
MostRecentConn(u) ==
  CHOOSE c \in ConnIds :
    /\ conns[c].userId = u
    /\ \A d \in ConnIds : conns[d].userId = u => d <= c

\* C10: the registry holds at most one handle per identity, a connect
\* stores the handle of the new connection, and whenever an identity has a
\* handle it is that of the most recent connection for the identity.
C10_OneHandlePerIdentity ==
  /\ \A e1, e2 \in activeSessions : e1[1] = e2[1] => e1[2] = e2[2]
  /\ \A e \in activeSessions : e[2] = MostRecentConn(e[1])
  /\ last.op = "connect" => <<last.userId, last.conn>> \in activeSessions

\* A second connection of an identity whose first connection is still
\* live: the registry holds the second handle only.
C10_Reconnected ==
  /\ last.op = "connect"
  /\ \E c \in ConnIds :
       /\ c < last.conn
       /\ conns[c] = [status |-> "live", userId |-> last.userId]
  /\ activeSessions = {<<last.userId, last.conn>>}

\* The steps that speak an agent reply on the response track, and the
\* identity the reply goes to.
ReplyAttempt == last.op \in {"reply", "photoReply", "sendText"}

ReplyAddressee ==
  IF last.op = "sendText" THEN last.to ELSE conns[last.conn].userId

\* C11: after a session disconnects, its identity is absent from the
\* registry, and any later attempt to speak a reply to that identity (by an
\* outbound send, or by a voice or photo flow of the disconnected session
\* holding its handle) makes no speak call and raises no exception.
C11_NoSpeakAfterDisconnect ==
  /\ last.op = "disconnect" => ~registryHas(activeSessions, last.userId)
  /\ (last.op = "sendText" /\ ~registryHas(activeSessions, last.to))
       => last.calls = <<>> /\ ~last.threw
  /\ (last.op \in {"reply", "photoReply"}
        /\ conns[last.conn].status = "closed"
        /\ ~registryHas(activeSessions, ReplyAddressee))
       => last.calls = <<>>

\* C12: at every state an identity has a registry entry if and only if a
\* connection of that identity is live, also when a second connection of
\* the identity arrived before the first one disconnected.
C12_RegisteredIffLive ==
  \A u \in Users :
    registryHas(activeSessions, u)
      <=> \E c \in ConnIds : conns[c] = [status |-> "live", userId |-> u]

\* The text of the reply a reply step speaks.
ReplyText == IF last.op = "sendText" THEN last.text ELSE last.reply

\* C13: every speak of an agent reply on the response track (voice reply,
\* photo reply, outbound send) is preceded, in the same flow, by setting
\* recentTtsText to that reply and speakingUntil to now + estimate(reply).
C13_EchoStateSetBeforeSpeak ==
  (ReplyAttempt /\ last.calls = <<replyCall(ReplyText)>>)
    => /\ recentTtsText[last.conn] = ReplyText
       /\ speakingUntil[last.conn] = now + estimateTtsDurationMs(ReplyText)

\* C14: a failure of any speak call (acknowledgment, reply or apology) made
\* while a voice or photo event is processed is caught and logged: no
\* rejection is left without a handler.
C14_SpeakFailuresCaught == unhandledRejections = 0

\* The step just taken is one in which route resolution (before the first
\* await of the pipeline) or the agent dispatch threw while an accepted
\* utterance was processed.
DispatchThrew ==
  \/ last.op = "transcription" /\ last.routeThrew
  \/ last.op = "pipelineThrew" /\ last.step = "dispatchReply"

\* C15: if route resolution or agent dispatch throws while an accepted
\* utterance is processed, the handler catches it: the apology is the speak
\* call it makes, on the response track, the flow goes on to that speak, the
\* registry and the connections are as they were (the session stays
\* registered and live), and the error is not left unhandled (the
\* acknowledgment speak of the same event may reject on its own).
C15_ThrowBecomesApology ==
  [][ DispatchThrew' =>
        /\ last'.calls # <<>>
        /\ last'.calls[Len(last'.calls)] = speakCall(ApologyText, 2, TRUE)
        /\ flows'[last'.conn].apology = flows[last'.conn].apology + 1
        /\ activeSessions' = activeSessions
        /\ conns' = conns
        /\ unhandledRejections' = unhandledRejections
             \/ (last'.op = "transcription"
                   /\ unhandledRejections' = unhandledRejections + 1) ]_vars

C15_DispatchThrewWhileRegistered ==
  /\ last.op = "pipelineThrew"
  /\ last.step = "dispatchReply"
  /\ conns[last.conn].status = "live"
  /\ activeSessions = {<<conns[last.conn].userId, last.conn>>}
  /\ flows[last.conn].apology = 1

\* C16: if a recording step of the inbound pipeline (record inbound session,
\* record session metadata, record activity) fails, the pipeline logs and
\* continues: the flow is still in the pipeline, on its way to the dispatch
\* and the reply, and no apology is spoken in its place.
C16_RecordingFailureContinues ==
  (last.op = "pipelineThrew" /\ last.step \in RecordingSteps)
    => /\ flows[last.conn].pipeline > 0
       /\ last.calls = <<>>

\* The texts of seq joined by newlines.
RECURSIVE joinLines(_)
joinLines(seq) ==
  IF seq = <<>> THEN <<>>
  ELSE IF Len(seq) = 1 THEN seq[1]
  ELSE seq[1] \o <<"\n">> \o joinLines(Tail(seq))

NonBlank(chunk) == \E i \in 1..Len(chunk) : chunk[i] \notin Whitespace

\* The chunk without the whitespace before its first and after its last
\* character that is not whitespace.
Trimmed(chunk) ==
  LET keep == {i \in 1..Len(chunk) : chunk[i] \notin Whitespace}
  IN  IF keep = {} THEN <<>>
      ELSE SubSeq(chunk, CHOOSE i \in keep : \A j \in keep : i <= j,
                         CHOOSE i \in keep : \A j \in keep : j <= i)

NoReplyNothingSpoken ==
  (\A i \in 1..Len(probe.chunks) : ~NonBlank(probe.chunks[i]))
    => probe.reply = <<>> /\ probe.calls = <<>>

\* C17 as worded: the result is the newline-joined concatenation, in arrival
\* order, of exactly the chunks that are non-empty after trimming; with no
\* such chunk the result is "no reply" and nothing is spoken.
C17_JoinOfNonBlankChunks ==
  (probe.fn = "collectReply" /\ probe.applied)
    => /\ probe.reply = joinLines(SelectSeq(probe.chunks, NonBlank))
       /\ NoReplyNothingSpoken

\* C17, amended: the result is the newline-joined concatenation, in arrival
\* order, of the trimmed texts of exactly the chunks that are non-empty
\* after trimming, and that text is what is spoken; with no such chunk the
\* result is "no reply" and nothing is spoken.
C17_JoinOfTrimmedChunks ==
  (probe.fn = "collectReply" /\ probe.applied)
    => /\ \E kept \in {SelectSeq(probe.chunks, NonBlank)} :
            probe.reply = joinLines([i \in 1..Len(kept) |-> Trimmed(kept[i])])
       /\ NoReplyNothingSpoken
       /\ probe.reply # <<>>
            => probe.calls = <<speakCall(probe.reply, 2, TRUE)>>

C17_TwoOfThreeChunksJoined ==
  /\ probe.fn = "collectReply"
  /\ probe.applied
  /\ probe.chunks = << <<" ","a"," ">>, <<" ">>, R_Four >>
  /\ probe.reply = <<"a","\n","F","o","u","r">>

\* The number of words of a text: the maximal runs of characters that are
\* not whitespace.
wordCount(text) ==
  Cardinality({i \in 1..Len(text) :
                 /\ text[i] \notin Whitespace
                 /\ i = 1 \/ text[i - 1] \in Whitespace})

\* C18: estimate(text) = max(2000, wordCount(text) * 130 + 1000) for every
\* reply text; a 2-word reply gives 2000 and a 20-word reply gives 3600.
C18_EstimateFormula ==
  (probe.fn = "estimate" /\ probe.applied)
    => /\ probe.ms = Max(2000, wordCount(probe.text) * 130 + 1000)
       /\ wordCount(probe.text) = 2 => probe.ms = 2000
       /\ wordCount(probe.text) = 20 => probe.ms = 3600

C18_TwentyWordReply ==
  /\ probe.fn = "estimate"
  /\ probe.applied
  /\ probe.text = P_twentyWords
  /\ wordCount(probe.text) = 20
  /\ probe.ms = 3600

\* C19: startAccount with no configured credential fails fast: no health
\* route is registered, no listener instance is created, the status is
\* marked not running with an error message, no exception is raised, and
\* nothing is started later.
C19_NoKeyFailsFast ==
  [][ /\ last'.op = "startSkipped" =>
           /\ gateway'[1].healthRoute = "none"
           /\ gateway'[1].listener = "none"
           /\ appServerInstance' = NoInstance
           /\ ~accountRuntimeStatus'.running
           /\ accountRuntimeStatus'.lastError = NoKeyError
           /\ accountRuntimeStatus'.lastError # NoError
           /\ ~last'.threw
      /\ gateway[1].pc = "skipped" =>
           /\ gateway'[1].pc = "skipped"
           /\ gateway'[1].healthRoute = "none"
           /\ gateway'[1].listener = "none"
           /\ appServerInstance' = NoInstance
           /\ accountRuntimeStatus' = accountRuntimeStatus ]_vars

C19_SkippedThenAborted ==
  /\ gateway[1].pc = "skipped"
  /\ gateway[1].aborted
  /\ gateway[1].healthRoute = "none"
  /\ appServerInstance = NoInstance
  /\ accountRuntimeStatus.lastError = NoKeyError

\* C20: after a successful start, the cancellation signal unregisters the
\* health route, stops the session listener and drops it, clears the
\* registry (no identity remains registered) and publishes a status with
\* running = false and lastStopAt set.
C20_AbortCleansUp ==
  last.op = "stopped" =>
    /\ gateway[last.call].healthRoute = "unregistered"
    /\ last.stopCalled
    /\ appServerInstance = NoInstance
    /\ activeSessions = {}
    /\ gateway[last.call].published # <<>>
    /\ \E status \in {gateway[last.call].published[
                         Len(gateway[last.call].published)]} :
         /\ ~status.running
         /\ status.lastStopAt = now
         /\ status.lastStopAt # NoTime
         /\ status = accountRuntimeStatus

C20_StoppedWithLiveConnection ==
  /\ last.op = "stopped"
  /\ \E c \in ConnIds : conns[c].status = "live"
  /\ activeSessions = {}
  /\ Len(gateway[1].published) = 2
  /\ gateway[1].published[1].running
  /\ ~gateway[1].published[2].running

\* The status last handed to ctx.setStatus by call k.
LastPublished(k) == gateway[k].published[Len(gateway[k].published)]

\* C21: if stopping the listener throws during teardown, teardown still
\* proceeds: the listener instance reference is dropped, the registry is
\* cleared, and the not-running status is published.
C21_TeardownSurvivesStopFailure ==
  (last.op = "stopped" /\ last.stopCalled /\ last.stopRejected)
    => /\ appServerInstance = NoInstance
       /\ activeSessions = {}
       /\ ~accountRuntimeStatus.running
       /\ gateway[last.call].published # <<>>
       /\ LastPublished(last.call) = accountRuntimeStatus
       /\ gateway[last.call].pc = "stopped"

C21_StopRejectedWithLiveConnection ==
  /\ last.op = "stopped"
  /\ last.stopRejected
  /\ \E c \in ConnIds : conns[c].status = "live"
  /\ activeSessions = {}
  /\ ~LastPublished(last.call).running

\* The servers that are started.
StartedListeners == {k \in CallIds : gateway[k].listener = "started"}

\* C22: at every state at most one started listener instance exists, and no
\* sequence of startAccount calls and abort signals leaves a started
\* listener that appServerInstance no longer refers to.
C22_OneListenerReferenced ==
  /\ Cardinality(StartedListeners) <= 1
  /\ \A k \in StartedListeners : appServerInstance = k

\* C23: a start whose listener fails to start collapses back to the stopped
\* state: status running = false with lastError set, no listener instance
\* retained (the health probe does not report the listener as running), and
\* the health route registered during that start does not stay registered.
C23_FailedStartCollapses ==
  \A k \in CallIds :
    gateway[k].pc = "failed"
      => /\ last.op = "startFailed" =>
              /\ ~accountRuntimeStatus.running
              /\ accountRuntimeStatus.lastError = StartError
         /\ appServerInstance # k
         /\ healthProbe(k) # "running"
         /\ gateway[k].healthRoute # "registered"

\* The abort signal of call k has just fired, after startAccount was called
\* with a credential and had not failed: while the server was starting or
\* once it ran.
AbortedAfterStart(k) ==
  /\ last.op \in {"abortUnheard", "stopping", "stopped"}
  /\ last.call = k
  /\ last.at \in {"starting", "running"}

\* The server of call k is not started, the registry is empty, the status is
\* not running and the promise startAccount returned has resolved.
TornDown(k) ==
  /\ gateway[k].listener \notin {"created", "started"}
  /\ activeSessions = {}
  /\ ~accountRuntimeStatus.running
  /\ gateway[k].pc \in {"failed", "stopping", "stopped"}

\* C24: an abort signal raised at any moment after startAccount was called
\* with a credential, also while the listener is still starting, eventually
\* leads to the listener being stopped, the registry being empty, status
\* running = false and the promise of the call resolving.
C24_AbortLeadsToTornDown ==
  \A k \in CallIds : AbortedAfterStart(k) ~> TornDown(k)

\* The steps of an utterance flow in which no reply was spoken to the end:
\* the reply is empty, the pipeline or the route resolution threw, the reply
\* speak failed, or the apology speak settled.
NoReplySpokenStep ==
  \/ last.op \in {"noReply", "pipelineThrew", "replyFailed", "apologySettled"}
  \/ last.op = "transcription" /\ last.verdict = "accepted"

\* C25: listenWindowUntil is extended, to now + 30000, only when the
\* response speak of a non-empty agent reply has completed successfully; it
\* is not changed when the reply is empty, when the dispatch fails, when the
\* response speak fails, or when only the apology is spoken.
C25_WindowExtendedOnlyAfterReply ==
  [][ \A c \in ConnIds :
        /\ listenWindowUntil'[c] > listenWindowUntil[c]
             => /\ last'.op = "replySpoken"
                /\ last'.conn = c
                /\ flows[c].speak > 0
                /\ listenWindowUntil'[c] = now' + 30000
        /\ NoReplySpokenStep'
             => listenWindowUntil'[c] = listenWindowUntil[c] ]_vars

C25_WindowOpenedByReply ==
  /\ last.op = "replySpoken"
  /\ last.before.listenWindowUntil = 0
  /\ listenWindowUntil[last.conn] = now + 30000
  /\ flows[last.conn].apology = 0

\* The statement logged at position i of the run was executed and did not
\* fail, and is the statement named.
Did(i, step) == probe.trace[i].step = step /\ probe.trace[i].ok

\* C26: within one accepted-utterance flow the acknowledgment speak, on the
\* acknowledgment track and not interrupting, is issued before the agent
\* dispatch starts; route resolution, inbound-session recording and
\* inbound-activity recording all precede the dispatch; the response speak,
\* on the response track and interrupting, happens only after the dispatch
\* completed.
C26_FlowOrder ==
  probe.fn = "flow" =>
    \A i \in 1..Len(probe.trace) :
      /\ probe.trace[i].step = "dispatchStart" =>
           /\ \E j \in 1..(i - 1) :
                /\ probe.trace[j].step = "ackSpeak"
                /\ probe.trace[j].calls = <<speakCall(AckText, 1, FALSE)>>
           /\ \A step \in {"resolveAgentRoute", "recordInboundSession",
                           "activity.record"} :
                \E j \in 1..(i - 1) : Did(j, step)
      /\ probe.trace[i].step = "replySpeak" =>
           /\ \E j \in 1..(i - 1) : Did(j, "dispatchDone")
           /\ probe.trace[i].calls =
                <<speakCall(collectReply(probe.chunks), 2, TRUE)>>

C26_WholeFlowRan ==
  /\ probe.fn = "flow"
  /\ probe.pc = FlowEnd
  /\ probe.failsAt = "none"
  /\ Len(probe.trace) = 9
  /\ Did(1, "ackSpeak")
  /\ Did(6, "dispatchStart")
  /\ Did(8, "replySpeak")

\* The step is an event or a continuation of connection c.
StepOf(c) == "conn" \in DOMAIN last' /\ last'.conn = c

\* C27: listenWindowUntil, speakingUntil and recentTtsText of a connection
\* are read and written only by steps of that connection: a step of another
\* connection, of the same user identity or not, and a step of no
\* connection leave them as they were; and a connection that has just been
\* accepted holds both timers at 0 and an empty echo text, whatever the
\* other connections hold.
C27_ListenStatePerSession ==
  [][ \A c \in ConnIds :
        /\ ~StepOf(c) => listenState(c)' = listenState(c)
        /\ (StepOf(c) /\ last'.op = "connect")
             => listenState(c)' =
                  [ listenWindowUntil |-> 0, speakingUntil |-> 0,
                    recentTtsText |-> <<>> ] ]_vars

\* Two live connections of one user identity: the reply was spoken on the
\* first, whose window is open, and the other still holds its initial state.
C27_SameUserOtherUntouched ==
  /\ last.op = "replySpoken"
  /\ \E d \in ConnIds :
       /\ d # last.conn
       /\ conns[d].status = "live"
       /\ conns[d].userId = conns[last.conn].userId
       /\ listenWindowUntil[last.conn] > now
       /\ recentTtsText[last.conn] # <<>>
       /\ listenState(d) =
            [ listenWindowUntil |-> 0, speakingUntil |-> 0,
              recentTtsText |-> <<>> ]

\* C28: after a stop command is handled on a connection its listen state
\* stays reset and no agent reply is spoken there until a later utterance is
\* accepted; a reply pending from an utterance accepted before the stop
\* neither speaks nor re-arms the timers.  Stated for the step that follows
\* the stop, in which no later utterance can have produced a reply yet.
C28_StopHoldsAgainstPendingReply ==
  [][ \A c \in ConnIds :
        (last.op = "transcription" /\ last.conn = c /\ last.verdict = "stop")
          => /\ listenState(c)' =
                  [ listenWindowUntil |-> 0, speakingUntil |-> 0,
                    recentTtsText |-> <<>> ]
             /\ ~(last'.op = "reply" /\ last'.conn = c) ]_vars

\* C29: a stop command is never forwarded to the agent.  The step that
\* handles it makes no speak call, neither the acknowledgment nor a
\* response nor an apology, starts no utterance flow, so that no dispatch
\* and no response speak can follow from it, and passes no command text on;
\* this in every state, flows of earlier utterances still in flight
\* included.
C29_StopNeverForwarded ==
  [][ \A c \in ConnIds :
        StopStep(c)
          => /\ \A i \in 1..Len(last'.calls) : last'.calls[i] = stopAudioCall
             /\ ~last'.dispatched
             /\ last'.command = NoCommand
             /\ flows' = flows
             /\ unhandledRejections' = unhandledRejections ]_vars

\* A stop command handled while the dispatch of an earlier utterance is
\* still awaited.
C29_StopDuringDispatch ==
  /\ last.op = "transcription"
  /\ last.verdict = "stop"
  /\ flows[last.conn].pipeline > 0
  /\ last.calls = <<stopAudioCall>>

\* The steps of the photo handler.
PhotoOps ==
  { "photo", "photoReply", "photoNoReply", "photoThrew", "photoSpoken",
    "photoSpeakFailed" }

\* C30: photo events bypass the voice gate and leave the listen state
\* alone.  A photo on a live connection is taken up and dispatched whatever
\* speakingUntil, listenWindowUntil and recentTtsText hold, and no step of
\* the photo handler, the reply speak and the apology included, changes the
\* three values of any connection.
C30_PhotosBypassGate ==
  [][ /\ last'.op \in PhotoOps
           => \A c \in ConnIds : listenState(c)' = listenState(c)
      /\ last'.op = "photo"
           => flows'[last'.conn].photo = flows[last'.conn].photo + 1
      /\ \A c \in ConnIds :
           (conns[c].status = "live" /\ nEvents < scope.events)
             => ENABLED Photo(c) ]_vars

\* A photo taken and answered while the reply to an utterance is presumed
\* to be playing: the photo reply is spoken and the echo state is that of
\* the utterance's reply.
C30_PhotoRepliedWhileSpeaking ==
  /\ last.op = "photoReply"
  /\ now < speakingUntil[last.conn]
  /\ recentTtsText[last.conn] # <<>>
  /\ recentTtsText[last.conn] # last.reply \/ flows[last.conn].speak > 0
  /\ listenState(last.conn) = last.before


=============================================================================
